---- MODULE Spec2Model ----
(***************************************************************************)
(* Model of chess-bot/chess-simulator.cpp: ChessSimulator::Move and        *)
(* run_stockfish.  One call of Move is modelled: the caller thread walks   *)
(* through run_stockfish statement group by statement group (pc), the      *)
(* forked child (the engine) runs concurrently and is an arbitrary         *)
(* program drawn from a finite set of engine behaviours.                   *)
(*                                                                         *)
(* Texts are sequences of one-character strings, so that find, substr,     *)
(* strstr and fgets are computed position by position as the C++ does.     *)
(***************************************************************************)
EXTENDS Integers, Sequences, FiniteSets, TLC

(***************************************************************************)
(* Program constants.                                                      *)
(***************************************************************************)
\* char buffer[4096]
BufSize == 4096
\* duration_cast<seconds>(now - start_time).count() > 5
ReadyTimeoutSec == 5
\* duration_cast<seconds>(now - start_time).count() > 7
ResultTimeoutSec == 7
\* sleep_for(milliseconds(10)) in both wait loops
SleepMs == 10
\* line.find(" ", 9) and line.substr(9, spacePos - 9)
KeywordSkip == 9
\* std::string::npos, the largest size_t.  size_t is modelled 31 bits wide
\* (the widest TLC's integers allow); every text is far shorter, so
\* a wrapped difference still exceeds every length, as with 64 bits.
Npos == 2147483647

(***************************************************************************)
(* Bounds of the model.                                                    *)
(***************************************************************************)
\* One loop iteration (fgets, clock read, sleep_for) lasts Quantum or
\* 2 * Quantum milliseconds: sleep_for sleeps at least SleepMs, and the
\* scheduler may make it longer.
Quantum == 500
\* The elapsed-time counter saturates here (never reached by the loops as
\* written: they leave at 6000 and 8000 ms).
ClockCap == 12000
\* Number of chatter lines a flooding engine emits in each phase.
MaxFlood == 3

Min(a, b) == IF a < b THEN a ELSE b

(***************************************************************************)
(* Characters and texts.                                                   *)
(***************************************************************************)
NL == <<"\n">>
SP == <<" ">>
Best == <<"b", "e", "s", "t">>
MoveW == <<"m", "o", "v", "e">>
Bestmove == Best \o MoveW
Readyok == <<"r", "e", "a", "d", "y", "o", "k">>
Tok == <<"e", "2", "e", "4">>
TokPromo == <<"e", "7", "e", "8", "q">>
Tok2 == <<"a", "1", "a", "2">>
Ponder == <<"p", "o", "n", "d", "e", "r">>
PonderArg == <<"e", "7", "e", "5">>
InfoLine == <<"i", "n", "f", "o", " ", "d">> \o NL
CurrLine == <<"c", "u", "r", "r">> \o MoveW \o SP \o TokPromo \o <<" ", "n">> \o NL

(***************************************************************************)
(* std::string and C library operations (positions are 0-based).           *)
(***************************************************************************)
\* pat occurs in s at 0-based position i
OccursAt(s, pat, i) ==
    /\ i >= 0
    /\ i + Len(pat) <= Len(s)
    /\ \A k \in 1..Len(pat) : s[i + k] = pat[k]

\* std::string::find(pat, from): first position >= from, or npos
Find(s, pat, from) ==
    LET hits == {i \in from..(Len(s) - Len(pat)) : OccursAt(s, pat, i)}
    IN  IF hits = {} THEN Npos
        ELSE CHOOSE i \in hits : \A j \in hits : i <= j

\* std::string::substr(pos, n) for pos <= size(); pos > size() throws
SubstrThrows(s, pos) == pos > Len(s)
Substr(s, pos, n) == SubSeq(s, pos + 1, pos + Min(n, Len(s) - pos))

\* size_t subtraction a - b (wraps below zero)
SizeSub(a, b) == IF a >= b THEN a - b ELSE Npos - (b - a) + 1

\* strstr(buffer, pat) != NULL
StrStr(buf, pat) == Find(buf, pat, 0) # Npos

\* fgets(buffer, sizeof(buffer), from_engine) on the non-blocking stream,
\* given the bytes the engine has written and the parent has not yet read:
\* the bytes up to and including the first newline, at most BufSize - 1;
\* when no newline has arrived yet, the partial line that is there
\* (glibc returns what it read when the read ends in EAGAIN); <<>> stands
\* for the NULL return (no data, or end of file).
Fgets(avail) ==
    LET lim == Min(Len(avail), BufSize - 1)
        nl  == Find(SubSeq(avail, 1, lim), NL, 0)
    IN  IF nl # Npos THEN SubSeq(avail, 1, nl + 1) ELSE SubSeq(avail, 1, lim)


(***************************************************************************)
(* The result parser: the extraction step of ChessSimulator::Move.         *)
(***************************************************************************)
\* output.find("bestmove")
BestmovePos_anyMove(output) == Find(output, MoveW, 0)
BestmovePos(output) == Find(output, Bestmove, 0)

\* size_t spacePos = line.find(" ", 9); if npos, spacePos = line.length()
SpacePos_noSearch(line) == Len(line)
SpacePos(line) ==
    LET sp == Find(line, SP, KeywordSkip)
    IN  IF sp = Npos THEN Len(line) ELSE sp

\* the value Move returns on every failure path: return ""
FailureValue == <<>>

\* catch (const std::exception& e): both std::runtime_error (thrown by
\* run_stockfish) and std::out_of_range (thrown by substr) derive from it
Caught_runtimeOnly(e) == e = "runtime_error"
Caught(e) == e \in {"runtime_error", "out_of_range"}

\* The try block after run_stockfish returned `output`: the exception it
\* raises ("none" when it returns) and the value it returns.  found tells
\* whether the bestmove branch was taken.
Extract(output) ==
    LET bestmovePos == BestmovePos(output)
    IN  IF bestmovePos = Npos
        THEN [exc |-> "none", found |-> FALSE, value |-> FailureValue]
        ELSE LET line     == Substr(output, bestmovePos, Npos)
                 spacePos == SpacePos(line)
             IN  IF SubstrThrows(line, KeywordSkip)
                 THEN [exc |-> "out_of_range", found |-> TRUE, value |-> <<>>]
                 ELSE [exc |-> "none", found |-> TRUE,
                       value |-> Substr(line, KeywordSkip,
                                        SizeSub(spacePos, KeywordSkip))]

(***************************************************************************)
(* Engines: what the child program writes to its standard output.  pre is  *)
(* written at any time after start-up, post only once `go` has arrived;    *)
(* each element is one write of the engine, so a line may reach the pipe   *)
(* in pieces.  A flooding engine also writes chatter lines in each phase.  *)
(***************************************************************************)
ReadyLn == Readyok \o NL
BmTok == Bestmove \o SP \o Tok
PonderTail == SP \o Ponder \o SP \o PonderArg
BmPonder == BmTok \o PonderTail

Eng(pre, post, flood) == [pre |-> pre, post |-> post, flood |-> flood]

Engines ==
    { Eng(<<ReadyLn>>, <<BmPonder \o NL>>, FALSE),
      Eng(<<ReadyLn>>, <<BmTok \o NL>>, FALSE),
      Eng(<<>>, <<InfoLine, BmPonder \o NL>>, FALSE),
      Eng(<<ReadyLn>>, <<InfoLine, BmPonder \o NL>>, FALSE),
      Eng(<<>>, <<BmTok \o NL>>, FALSE),
      Eng(<<ReadyLn>>, <<Best, MoveW \o SP \o Tok \o PonderTail \o NL>>, FALSE),
      Eng(<<ReadyLn>>, <<Bestmove \o SP \o <<"e", "2">>,
                         <<"e", "4">> \o PonderTail \o NL>>, FALSE),
      Eng(<<ReadyLn>>, <<BmTok>>, FALSE),
      Eng(<<ReadyLn>>, <<>>, FALSE),
      Eng(<<>>, <<>>, FALSE),
      Eng(<<>>, <<>>, TRUE),
      Eng(<<ReadyLn>>, <<Bestmove>>, FALSE),
      Eng(<<ReadyLn>>, <<Bestmove \o NL>>, FALSE),
      Eng(<<ReadyLn>>, <<Best, MoveW \o NL, InfoLine>>, FALSE),
      Eng(<<ReadyLn>>, <<Best, MoveW \o SP \o Tok \o PonderTail \o NL,
                         Bestmove \o SP \o Tok2 \o NL>>, FALSE) }

(***************************************************************************)
(* State.                                                                  *)
(***************************************************************************)
VARIABLES
    pc,              \* position of the caller thread in Move / run_stockfish
    engine,          \* the behaviour of the program behind the chosen path
    sigpipeIgnored,  \* whether the calling process ignores SIGPIPE
    stockfish_path,  \* run_stockfish: stockfish_path ("" while empty)
    fds,             \* pipe descriptors / streams open in the calling process
    child,           \* the forked child: none, forked, running, zombie, reaped
    sent,            \* commands written and flushed to the engine's input
    preEmitted,      \* writes of engine.pre done
    postEmitted,     \* writes of engine.post done
    flooded,         \* chatter lines written in the current phase
    avail,           \* engine output not yet consumed by fgets
    result,          \* run_stockfish: result
    ready,           \* run_stockfish: ready
    found_bestmove,  \* run_stockfish: found_bestmove
    elapsed,         \* now - start_time, in milliseconds
    output,          \* Move: output
    retval,          \* what Move returned
    shutdowns,       \* completed shutdowns (waitpid returned)
    fs,              \* places that hold an executable file named stockfish
    execFailed,      \* the child's execl failed
    diag,            \* the last message Move wrote to std::cerr
    teardown,        \* steps of the clean-up done so far, in order
    chunks           \* what each successful fgets of Result-Wait returned

vars == <<pc, engine, sigpipeIgnored, stockfish_path, fds, child, sent,
          preEmitted, postEmitted, flooded, avail, result, ready,
          found_bestmove, elapsed, output, retval, shutdowns, fs, execFailed,
          diag, teardown, chunks>>

\* const std::array<std::string, 4> stockfish_paths
stockfish_paths ==
    << "/usr/local/bin/stockfish", "/app/stockfish", "stockfish",
       "/opt/homebrew/bin/stockfish" >>

\* Where an executable file named stockfish may be: the directories of the
\* three absolute candidates, the current working directory, and a
\* directory of the executable search path that is none of these.
Places == {"/usr/local/bin", "/app", "cwd", "/opt/homebrew/bin", "pathdir"}

\* access(path, X_OK) and execl(path, ...) resolve a path the same way: an
\* absolute path as it is, a name without a slash against the current
\* working directory (neither consults the search path).
ResolveDir(path) ==
    CASE path = "/usr/local/bin/stockfish"    -> "/usr/local/bin"
      [] path = "/app/stockfish"              -> "/app"
      [] path = "stockfish"                   -> "cwd"
      [] path = "/opt/homebrew/bin/stockfish" -> "/opt/homebrew/bin"

\* access(path.c_str(), X_OK) == 0
Access(path) == ResolveDir(path) \in fs

\* The state at the call of Move, for a file system and an engine.
Start(environments, engines) ==
    /\ pc = "locate"
    /\ fs \in environments
    /\ engine \in engines
    /\ sigpipeIgnored \in BOOLEAN
    /\ execFailed = FALSE
    /\ diag = ""
    /\ teardown = <<>>
    /\ chunks = <<>>
    /\ stockfish_path = ""
    /\ fds = {}
    /\ child = "none"
    /\ sent = <<>>
    /\ preEmitted = 0
    /\ postEmitted = 0
    /\ flooded = 0
    /\ avail = <<>>
    /\ result = <<>>
    /\ ready = FALSE
    /\ found_bestmove = FALSE
    /\ elapsed = 0
    /\ output = <<>>
    /\ retval = <<>>
    /\ shutdowns = 0

\* Every engine, in a file system for each outcome of the locator.
Environments ==
    { {}, {"pathdir"}, {"/usr/local/bin", "cwd"}, {"/app", "/opt/homebrew/bin"},
      {"cwd", "pathdir"}, {"/opt/homebrew/bin"} }
Init == Start(Environments, Engines)

\* Every file system, with a cooperative and a flooding engine.
EnvEngines == {Eng(<<ReadyLn>>, <<BmPonder \o NL>>, FALSE), Eng(<<>>, <<>>, TRUE)}
EnvInit == Start(SUBSET Places, EnvEngines)


(***************************************************************************)
(* Helpers of the caller's steps.                                          *)
(***************************************************************************)
Drop(s, n) == SubSeq(s, n + 1, Len(s))

\* duration of one loop iteration (see Quantum)
IterMs == {d \in {Quantum, 2 * Quantum} : d >= SleepMs}

\* duration_cast<seconds>(now - start_time).count() > limit
TimedOut_never(ms, limit) == FALSE
TimedOut(ms, limit) == (ms \div 1000) > limit

\* A throw inside Move's try block: caught by Move's handler, which falls
\* through to return ""; "escaped" is an exception leaving Move.
Throw(e, what) ==
    /\ pc' = IF Caught(e) THEN "returned" ELSE "escaped"
    /\ retval' = FailureValue
    /\ diag' = IF Caught(e) THEN what ELSE diag

\* A write to the engine's input reaches it while the child holds the read
\* end of the pipe (it has not exited).  Otherwise write(2) fails with EPIPE
\* and raises SIGPIPE, which ends the calling process unless it is ignored.
WriteOk == child \in {"forked", "running"}
Delivered(cmds) == IF WriteOk THEN sent \o cmds ELSE sent
AfterWrite(next) == IF WriteOk \/ sigpipeIgnored THEN next ELSE "killed"

ConfigCmds_noIsready ==
    << "setoption name Threads", "setoption name Hash",
       "setoption name Skill Level", "setoption name MultiPV" >>
ConfigCmds ==
    << "setoption name Threads", "setoption name Hash",
       "setoption name Skill Level", "setoption name MultiPV", "isready" >>
GoSent == \E i \in 1..Len(sent) : sent[i] = "go movetime 1000"

(***************************************************************************)
(* run_stockfish, the caller's side.                                       *)
(***************************************************************************)
\* for (path : stockfish_paths) if (access(path, X_OK) == 0)
\* { stockfish_path = path; break; }
FirstExecutable_noBreak ==
    LET X == {i \in 1..Len(stockfish_paths) : Access(stockfish_paths[i])}
    IN  IF X = {} THEN ""
        ELSE stockfish_paths[CHOOSE i \in X : \A j \in X : i >= j]
FirstExecutable ==
    LET X == {i \in 1..Len(stockfish_paths) : Access(stockfish_paths[i])}
    IN  IF X = {} THEN ""
        ELSE stockfish_paths[CHOOSE i \in X : \A j \in X : i <= j]

\* the engine locator, and the throw when stockfish_path is empty
Locate ==
    /\ pc = "locate"
    /\ stockfish_path' = FirstExecutable
    /\ IF FirstExecutable = ""
       THEN Throw("runtime_error", "Could not find stockfish executable in any of the expected paths.")
       ELSE pc' = "pipes" /\ UNCHANGED <<retval, diag>>
    /\ UNCHANGED <<engine, sigpipeIgnored, fds, child, sent, preEmitted,
                   postEmitted, flooded, avail, result, ready, found_bestmove,
                   elapsed, output, shutdowns,
                   fs, execFailed, teardown, chunks>>

\* pipe(parent_to_child) < 0 || pipe(child_to_parent) < 0
CreatePipes ==
    /\ pc = "pipes"
    /\ \/ /\ fds' = {"p2c_r", "p2c_w", "c2p_r", "c2p_w"}
          /\ pc' = "fork"
          /\ UNCHANGED <<retval, diag>>
       \/ /\ fds' = {}
          /\ Throw("runtime_error", "Failed to create pipes")
       \/ /\ fds' = {"p2c_r", "p2c_w"}
          /\ Throw("runtime_error", "Failed to create pipes")
    /\ UNCHANGED <<engine, sigpipeIgnored, stockfish_path, child, sent,
                   preEmitted, postEmitted, flooded, avail, result, ready,
                   found_bestmove, elapsed, output, shutdowns,
                   fs, execFailed, teardown, chunks>>

\* pid = fork(), and the pid < 0 branch
Fork ==
    /\ pc = "fork"
    /\ \/ /\ child' = "forked"
          /\ pc' = "parent_setup"
          /\ UNCHANGED <<fds, retval, diag>>
       \/ /\ fds' = {}
          /\ Throw("runtime_error", "Failed to fork process")
          /\ UNCHANGED child
    /\ UNCHANGED <<engine, sigpipeIgnored, stockfish_path, sent, preEmitted,
                   postEmitted, flooded, avail, result, ready, found_bestmove,
                   elapsed, output, shutdowns,
                   fs, execFailed, teardown, chunks>>

\* parent: close the unused ends, O_NONBLOCK, fdopen both streams
ParentSetup ==
    /\ pc = "parent_setup"
    /\ fds' = fds \ {"p2c_r", "c2p_w"}
    /\ pc' = "send_uci"
    /\ UNCHANGED <<engine, sigpipeIgnored, stockfish_path, child, sent,
                   preEmitted, postEmitted, flooded, avail, result, ready,
                   found_bestmove, elapsed, output, retval, shutdowns,
                   fs, execFailed, diag, teardown, chunks>>

\* fprintf "uci", fflush, sleep 100 ms
SendUci ==
    /\ pc = "send_uci"
    /\ sent' = Delivered(<<"uci">>)
    /\ pc' = AfterWrite("send_config")
    /\ UNCHANGED <<engine, sigpipeIgnored, stockfish_path, fds, child,
                   preEmitted, postEmitted, flooded, avail, result, ready,
                   found_bestmove, elapsed, output, retval, shutdowns,
                   fs, execFailed, diag, teardown, chunks>>

\* the four setoption commands and isready, fflush; then the loop's set-up
SendConfig ==
    /\ pc = "send_config"
    /\ sent' = Delivered(ConfigCmds)
    /\ pc' = AfterWrite("ready_wait")
    /\ result' = <<>>
    /\ elapsed' = 0
    /\ ready' = FALSE
    /\ UNCHANGED <<engine, sigpipeIgnored, stockfish_path, fds, child,
                   preEmitted, postEmitted, flooded, avail, found_bestmove,
                   output, retval, shutdowns,
                   fs, execFailed, diag, teardown, chunks>>

\* one iteration of while (!ready)
ReadyIter ==
    /\ pc = "ready_wait"
    /\ LET buffer == Fgets(avail)
           ready1 == ready \/ (buffer # <<>> /\ StrStr(buffer, Readyok))
       IN  /\ avail' = Drop(avail, Len(buffer))
           /\ result' = result \o buffer
           /\ ready' = ready1
           /\ IF TimedOut(elapsed, ReadyTimeoutSec)
              THEN pc' = "send_position" /\ UNCHANGED elapsed
              ELSE /\ \E d \in IterMs : elapsed' = Min(elapsed + d, ClockCap)
                   /\ pc' = IF ready1 THEN "send_position" ELSE "ready_wait"
    /\ UNCHANGED <<engine, sigpipeIgnored, stockfish_path, fds, child, sent,
                   preEmitted, postEmitted, flooded, found_bestmove, output,
                   retval, shutdowns,
                   fs, execFailed, diag, teardown, chunks>>

\* fprintf "position fen <fen>", fflush
SendPosition ==
    /\ pc = "send_position"
    /\ sent' = Delivered(<<"position fen">>)
    /\ pc' = AfterWrite("send_go")
    /\ UNCHANGED <<engine, sigpipeIgnored, stockfish_path, fds, child,
                   preEmitted, postEmitted, flooded, avail, result, ready,
                   found_bestmove, elapsed, output, retval, shutdowns,
                   fs, execFailed, diag, teardown, chunks>>

\* fprintf "go movetime 1000", fflush; then result.clear() and the set-up
SendGo_noClear ==
    /\ pc = "send_go"
    /\ sent' = Delivered(<<"go movetime 1000">>)
    /\ pc' = AfterWrite("result_wait")
    /\ elapsed' = 0
    /\ found_bestmove' = FALSE
    /\ flooded' = 0
    /\ chunks' = <<>>
    /\ UNCHANGED <<engine, sigpipeIgnored, stockfish_path, fds, child,
                   preEmitted, postEmitted, avail, result, ready, output, retval,
                   shutdowns,
                   fs, execFailed, diag, teardown>>

SendGo ==
    /\ pc = "send_go"
    /\ sent' = Delivered(<<"go movetime 1000">>)
    /\ pc' = AfterWrite("result_wait")
    /\ result' = <<>>
    /\ elapsed' = 0
    /\ found_bestmove' = FALSE
    /\ flooded' = 0
    /\ chunks' = <<>>
    /\ UNCHANGED <<engine, sigpipeIgnored, stockfish_path, fds, child,
                   preEmitted, postEmitted, avail, ready, output, retval,
                   shutdowns,
                   fs, execFailed, diag, teardown>>

\* one iteration of while (!found_bestmove)
ResultIter ==
    /\ pc = "result_wait"
    /\ LET buffer == Fgets(avail)
           found1 == found_bestmove \/ (buffer # <<>> /\ StrStr(buffer, Bestmove))
       IN  /\ avail' = Drop(avail, Len(buffer))
           /\ result' = result \o buffer
           /\ found_bestmove' = found1
           /\ IF TimedOut(elapsed, ResultTimeoutSec)
              THEN pc' = "send_quit" /\ UNCHANGED elapsed
              ELSE /\ \E d \in IterMs : elapsed' = Min(elapsed + d, ClockCap)
                   /\ pc' = IF found1 THEN "send_quit" ELSE "result_wait"
    /\ chunks' = IF Fgets(avail) # <<>> THEN Append(chunks, Fgets(avail)) ELSE chunks
    /\ UNCHANGED <<engine, sigpipeIgnored, stockfish_path, fds, child, sent,
                   preEmitted, postEmitted, flooded, ready, output, retval,
                   shutdowns,
                   fs, execFailed, diag, teardown>>

\* fprintf "quit", fflush
SendQuit ==
    /\ pc = "send_quit"
    /\ sent' = Delivered(<<"quit">>)
    /\ pc' = AfterWrite("close")
    /\ teardown' = Append(teardown, "quit")
    /\ UNCHANGED <<engine, sigpipeIgnored, stockfish_path, fds, child,
                   preEmitted, postEmitted, flooded, avail, result, ready,
                   found_bestmove, elapsed, output, retval, shutdowns,
                   fs, execFailed, diag, chunks>>

\* fclose(to_engine); fclose(from_engine)
CloseStreams ==
    /\ pc = "close"
    /\ fds' = fds \ {"p2c_w", "c2p_r"}
    /\ pc' = "kill"
    /\ teardown' = Append(teardown, "fclose")
    /\ UNCHANGED <<engine, sigpipeIgnored, stockfish_path, child, sent,
                   preEmitted, postEmitted, flooded, avail, result, ready,
                   found_bestmove, elapsed, output, retval, shutdowns,
                   fs, execFailed, diag, chunks>>

\* (no signal: the reap would wait for the engine to exit by itself)
Kill_skipped ==
    /\ pc = "kill"
    /\ pc' = "waitpid"
    /\ UNCHANGED <<engine, sigpipeIgnored, stockfish_path, fds, child, sent,
                   preEmitted, postEmitted, flooded, avail, result, ready,
                   found_bestmove, elapsed, output, retval, shutdowns,
                   fs, execFailed, diag, teardown, chunks>>
\* kill(pid, SIGTERM): ends a child that has not installed a handler; an
\* engine may handle or ignore the signal and keep running
Kill ==
    /\ pc = "kill"
    /\ \/ child \in {"forked", "running"} /\ child' = "zombie"
       \/ child = "running" /\ child' = "running"
       \/ child = "zombie" /\ child' = "zombie"
    /\ pc' = "waitpid"
    /\ teardown' = Append(teardown, "kill")
    /\ UNCHANGED <<engine, sigpipeIgnored, stockfish_path, fds, sent,
                   preEmitted, postEmitted, flooded, avail, result, ready,
                   found_bestmove, elapsed, output, retval, shutdowns,
                   fs, execFailed, diag, chunks>>

\* waitpid(pid, NULL, 0) blocks until the child has exited, and reaps it;
\* return result; Move: std::string output = run_stockfish(fen)
WaitPid_noReap ==
    /\ pc = "waitpid"
    /\ pc' = "parse"
    /\ output' = result
    /\ teardown' = Append(teardown, "waitpid")
    /\ UNCHANGED <<engine, sigpipeIgnored, stockfish_path, fds, child, sent,
                   preEmitted, postEmitted, flooded, avail, result, ready,
                   found_bestmove, elapsed, retval, shutdowns,
                   fs, execFailed, diag, chunks>>
WaitPid ==
    /\ pc = "waitpid"
    /\ child = "zombie"
    /\ child' = "reaped"
    /\ shutdowns' = shutdowns + 1
    /\ output' = result
    /\ pc' = "parse"
    /\ teardown' = Append(teardown, "waitpid")
    /\ UNCHANGED <<engine, sigpipeIgnored, stockfish_path, fds, sent,
                   preEmitted, postEmitted, flooded, avail, result, ready,
                   found_bestmove, elapsed, retval,
                   fs, execFailed, diag, chunks>>

(***************************************************************************)
(* ChessSimulator::Move after run_stockfish returned.                      *)
(***************************************************************************)
MoveReturn ==
    /\ pc = "parse"
    /\ LET r == Extract(output)
       IN  IF r.exc = "none"
           THEN /\ pc' = "returned"
                /\ retval' = r.value
                /\ diag' = IF r.found THEN diag
                           ELSE "'bestmove' not found in stockfish output"
           ELSE Throw(r.exc, "basic_string::substr")
    /\ UNCHANGED <<engine, sigpipeIgnored, stockfish_path, fds, child, sent,
                   preEmitted, postEmitted, flooded, avail, result, ready,
                   found_bestmove, elapsed, output, shutdowns,
                   fs, execFailed, teardown, chunks>>

(***************************************************************************)
(* The child process.                                                      *)
(***************************************************************************)
Running == pc \notin {"returned", "escaped", "killed"}

\* child branch: dup2 the pipe ends, execl succeeds
ExecOk ==
    /\ Running
    /\ child = "forked"
    /\ Access(stockfish_path)
    /\ child' = "running"
    /\ UNCHANGED <<pc, engine, sigpipeIgnored, stockfish_path, fds, sent,
                   preEmitted, postEmitted, flooded, avail, result, ready,
                   found_bestmove, elapsed, output, retval, shutdowns,
                   fs, execFailed, diag, teardown, chunks>>

\* child branch: execl fails, perror, exit(EXIT_FAILURE)
ExecFail ==
    /\ Running
    /\ child = "forked"
    /\ child' = "zombie"
    /\ execFailed' = TRUE
    /\ UNCHANGED <<pc, engine, sigpipeIgnored, stockfish_path, fds, sent,
                   preEmitted, postEmitted, flooded, avail, result, ready,
                   found_bestmove, elapsed, output, retval, shutdowns,
                   fs, diag, teardown, chunks>>

\* the engine writes its next piece of start-up output
EngineEmitPre ==
    /\ Running
    /\ child = "running"
    /\ "c2p_r" \in fds
    /\ preEmitted < Len(engine.pre)
    /\ preEmitted' = preEmitted + 1
    /\ avail' = avail \o engine.pre[preEmitted + 1]
    /\ UNCHANGED <<pc, engine, sigpipeIgnored, stockfish_path, fds, child,
                   sent, postEmitted, flooded, result, ready, found_bestmove,
                   elapsed, output, retval, shutdowns,
                   fs, execFailed, diag, teardown, chunks>>

\* the engine, having received go, writes its next piece of search output
EngineEmitPost ==
    /\ Running
    /\ child = "running"
    /\ "c2p_r" \in fds
    /\ GoSent
    /\ postEmitted < Len(engine.post)
    /\ postEmitted' = postEmitted + 1
    /\ avail' = avail \o engine.post[postEmitted + 1]
    /\ UNCHANGED <<pc, engine, sigpipeIgnored, stockfish_path, fds, child,
                   sent, preEmitted, flooded, result, ready, found_bestmove,
                   elapsed, output, retval, shutdowns,
                   fs, execFailed, diag, teardown, chunks>>

\* a flooding engine writes a chatter line
EngineFlood ==
    /\ Running
    /\ child = "running"
    /\ "c2p_r" \in fds
    /\ engine.flood
    /\ flooded < MaxFlood
    /\ avail = <<>>
    /\ flooded' = flooded + 1
    /\ avail' = InfoLine
    /\ UNCHANGED <<pc, engine, sigpipeIgnored, stockfish_path, fds, child,
                   sent, preEmitted, postEmitted, result, ready,
                   found_bestmove, elapsed, output, retval, shutdowns,
                   fs, execFailed, diag, teardown, chunks>>

\* the engine exits: on quit, on end of input, on a signal, or by itself
EngineExit ==
    /\ Running
    /\ child = "running"
    /\ child' = "zombie"
    /\ UNCHANGED <<pc, engine, sigpipeIgnored, stockfish_path, fds, sent,
                   preEmitted, postEmitted, flooded, avail, result, ready,
                   found_bestmove, elapsed, output, retval, shutdowns,
                   fs, execFailed, diag, teardown, chunks>>

Caller ==
    \/ Locate \/ CreatePipes \/ Fork \/ ParentSetup \/ SendUci \/ SendConfig
    \/ ReadyIter \/ SendPosition \/ SendGo \/ ResultIter \/ SendQuit
    \/ CloseStreams \/ Kill \/ WaitPid \/ MoveReturn

Child ==
    \/ ExecOk \/ ExecFail \/ EngineEmitPre \/ EngineEmitPost \/ EngineFlood
    \/ EngineExit

Next == Caller \/ Child

Spec == Init /\ [][Next]_vars

\* The caller is a thread that keeps running: every step it can take, it
\* takes.  Nothing is assumed of the engine.
FairSpec == Spec /\ WF_vars(Caller)

\* The same program, started in every file system.
EnvSpec == EnvInit /\ [][Next]_vars


(***************************************************************************)
(* The parser alone: Move's extraction step applied to a captured text.    *)
(* Every text can be what run_stockfish returns: Result-Wait appends each  *)
(* piece it reads, and pieces that split every `bestmove` leave the flag   *)
(* unset until the timeout.                                                *)
(***************************************************************************)
ParsePrefixes == {<<>>, InfoLine, CurrLine, <<"x", " ">>}
ParseBodies ==
    { <<>>, Best, Bestmove, Bestmove \o SP, BmTok, BmPonder,
      Bestmove \o SP \o TokPromo }
ParseSuffixes ==
    { <<>>, NL, SP, NL \o InfoLine, NL \o Bestmove \o SP \o Tok2 \o NL }
ParseTexts ==
    {a \o b \o c : a \in ParsePrefixes, b \in ParseBodies, c \in ParseSuffixes}

ParseInit ==
    /\ pc = "parse"
    /\ output \in ParseTexts
    /\ result = output
    /\ engine = Eng(<<>>, <<>>, FALSE)
    /\ sigpipeIgnored = FALSE
    /\ stockfish_path = stockfish_paths[1]
    /\ fds = {}
    /\ child = "reaped"
    /\ sent = <<"uci">> \o ConfigCmds \o <<"position fen", "go movetime 1000", "quit">>
    /\ preEmitted = 0
    /\ postEmitted = 0
    /\ flooded = 0
    /\ avail = <<>>
    /\ ready = FALSE
    /\ found_bestmove = FALSE
    /\ elapsed = 0
    /\ retval = <<>>
    /\ shutdowns = 1
    /\ fs = {"/usr/local/bin"}
    /\ execFailed = FALSE
    /\ diag = ""
    /\ teardown = <<"quit", "fclose", "kill", "waitpid">>
    /\ chunks = <<output>>

ParseNext == MoveReturn

ParseSpec == ParseInit /\ [][ParseNext]_vars

(***************************************************************************)
(* Vocabulary of the properties.                                           *)
(***************************************************************************)
IsWs(c) == c \in {" ", "\n"}

\* the word starting at 0-based position i: up to the next space, line
\* terminator or the end of the text
WordAt(text, i) ==
    LET ends == {j \in i..Len(text) : j = Len(text) \/ IsWs(text[j + 1])}
    IN  SubSeq(text, i + 1, CHOOSE j \in ends : \A k \in ends : j <= k)

\* the first `bestmove` of the text is followed by one space and a token
WellFormed(text) ==
    LET p == Find(text, Bestmove, 0)
    IN  /\ p # Npos
        /\ p + Len(Bestmove) + 1 <= Len(text)
        /\ text[p + Len(Bestmove) + 1] = " "
        /\ WordAt(text, p + Len(Bestmove) + 1) # <<>>
TokenOf(text) == WordAt(text, Find(text, Bestmove, 0) + Len(Bestmove) + 1)

\* ... and the token is followed by " ponder <arg>"
PonderForm(text) ==
    /\ WellFormed(text)
    /\ LET q == Find(text, Bestmove, 0) + Len(Bestmove) + 1 + Len(TokenOf(text))
       IN  /\ OccursAt(text, SP \o Ponder \o SP, q)
           /\ WordAt(text, q + Len(Ponder) + 2) # <<>>

\* the first `bestmove` of the text is followed by the end of the text or
\* by a line terminator
Degenerate(text) ==
    LET p == Find(text, Bestmove, 0)
    IN  /\ p # Npos
        /\ \/ p + Len(Bestmove) = Len(text)
           \/ text[p + Len(Bestmove) + 1] = "\n"

RECURSIVE Flatten(_)
Flatten(pieces) ==
    IF pieces = <<>> THEN <<>> ELSE Head(pieces) \o Flatten(Tail(pieces))

\* the engine answers go with a newline-terminated, well-formed bestmove line
Answers(e) ==
    LET text == Flatten(e.post)
    IN  /\ WellFormed(text)
        /\ \E i \in 1..Len(text) :
              /\ text[i] = "\n"
              /\ i > Find(text, Bestmove, 0) + Len(Bestmove) + 1
        /\ ~e.flood
\* the engine never writes `bestmove`
NeverBestmove(e) == ~StrStr(Flatten(e.pre) \o Flatten(e.post), Bestmove)
\* the engine never writes `readyok`
NeverReady(e) == ~StrStr(Flatten(e.pre) \o Flatten(e.post), Readyok)

Returned == pc = "returned"
Spawned == child # "none"

(***************************************************************************)
(* Properties.                                                             *)
(***************************************************************************)

\* C1: when Move returns (or an exception leaves it) after a successful
\* fork, shutdown has run to completion exactly once: both streams are
\* closed, no pipe descriptor is open, and the child has been reaped,
\* whichever way Ready-Wait, Result-Wait and the parse ended.
C1_ShutdownBeforeReturn ==
    /\ shutdowns <= 1
    /\ (pc \in {"returned", "escaped"} /\ Spawned) =>
          /\ shutdowns = 1
          /\ fds = {}
          /\ child = "reaped"

\* C1 witness: a call in which both waits timed out and the parse found
\* nothing has returned with the child reaped.
C1_Witness ==
    /\ Returned /\ Spawned
    /\ ~ready /\ ~found_bestmove
    /\ TimedOut(elapsed, ResultTimeoutSec)
    /\ retval = <<>>
    /\ child = "reaped" /\ shutdowns = 1

\* C2: no exception leaves Move, and in each failure mode (no candidate
\* found, pipe or fork failure, no bestmove in the captured text whether
\* after a timeout or not, an error raised by the extraction) Move returns
\* the empty string.
C2_NoErrorEscapes ==
    /\ pc # "escaped"
    /\ Returned =>
          /\ stockfish_path = "" => retval = <<>>
          /\ ~Spawned => retval = <<>>
          /\ (Spawned /\ ~StrStr(output, Bestmove)) => retval = <<>>
          /\ (Spawned /\ StrStr(output, Bestmove)
                /\ Len(output) - Find(output, Bestmove, 0) < KeywordSkip)
                => retval = <<>>

\* C2 witness: Move has returned after substr raised out_of_range (the
\* captured text ends with the keyword).
C2_Witness ==
    /\ Returned /\ Spawned
    /\ StrStr(output, Bestmove)
    /\ Len(output) - Find(output, Bestmove, 0) < KeywordSkip
    /\ retval = <<>>

\* C3: for an engine that answers go with a well-formed, newline-terminated
\* bestmove line, whose whole answer was written and whose keyword was seen
\* by Result-Wait, Move returns exactly the token, however the answer was
\* split across the reads.
C3_EndToEnd ==
    (/\ Returned /\ shutdowns = 1
     /\ Answers(engine)
     /\ postEmitted = Len(engine.post)
     /\ found_bestmove)
    => retval = TokenOf(Flatten(engine.post))

\* C4: for a captured text whose first bestmove is followed by a space and
\* a token, the parser returns exactly that token, whatever follows it.
C4_ParserReturnsToken ==
    (Returned /\ shutdowns = 1 /\ WellFormed(output))
    => retval = TokenOf(output)

\* C5: for a captured text whose first bestmove line has the form
\* `bestmove <token> ponder <arg>`, the parser returns <token>: the token
\* of the first occurrence, without the ponder keyword or its argument.
C5_PonderExcluded ==
    (Returned /\ PonderForm(output))
    => /\ retval = TokenOf(output)
       /\ ~StrStr(retval, Ponder)
       /\ ~StrStr(retval, PonderArg)

\* C5 witness: the parser has returned for a text with a ponder line and a
\* second bestmove line after it.
C5_Witness ==
    /\ Returned /\ PonderForm(output)
    /\ Find(output, Bestmove, Find(output, Bestmove, 0) + 1) # Npos
    /\ retval = Tok

\* C6: for a captured text with no bestmove substring, Move returns the
\* empty string.
C6_NoBestmoveEmpty ==
    (Returned /\ shutdowns = 1 /\ ~StrStr(output, Bestmove))
    => retval = <<>>

\* C6 witness: Move has returned for a non-empty text that holds `move`
\* but not `bestmove`.
C6_Witness ==
    /\ Returned /\ shutdowns = 1
    /\ StrStr(output, MoveW) /\ ~StrStr(output, Bestmove)
    /\ retval = <<>>

\* C7: for a captured text whose first bestmove is followed by no token
\* (end of text, or a line terminator), Move returns the empty string and
\* no error leaves it.
C7_DegenerateKeyword ==
    (pc \in {"returned", "escaped"} /\ shutdowns = 1 /\ Degenerate(output))
    => (Returned /\ retval = <<>>)


\* C8: with an engine that never writes readyok, the caller leaves
\* Ready-Wait, has sent position and go (in this order, after isready) when
\* it is in Result-Wait, and returns the token of an engine that answers
\* with a well-formed bestmove line seen by Result-Wait.
C8_ReadyTimeoutNonFatal ==
    /\ (pc = "result_wait" /\ NeverReady(engine) /\ child = "running") =>
          sent = <<"uci">> \o ConfigCmds \o <<"position fen", "go movetime 1000">>
    /\ (/\ Returned /\ shutdowns = 1
        /\ NeverReady(engine)
        /\ Answers(engine)
        /\ postEmitted = Len(engine.post)
        /\ found_bestmove)
       => retval = TokenOf(Flatten(engine.post))

\* C9: with an engine that never writes bestmove, Move returns only after
\* the Result-Wait bound has elapsed, and then the empty string; and
\* Result-Wait does not go on for ever: no iteration starts later than one
\* iteration after the bound, and every iteration moves the clock.
C9_Inv ==
    /\ (Returned /\ shutdowns = 1 /\ NeverBestmove(engine)) =>
          /\ retval = <<>>
          /\ TimedOut(elapsed, ResultTimeoutSec)
    /\ pc = "result_wait" =>
          elapsed < (ResultTimeoutSec + 1) * 1000 + 2 * Quantum
C9_Step ==
    (ResultIter /\ pc' = "result_wait") => elapsed' > elapsed
C9_ResultWaitBounded == []C9_Inv /\ [][C9_Step]_vars

\* C9 witness: Move has returned the empty string for a flooding engine
\* whose whole chatter was read during Result-Wait.
C9_Witness ==
    /\ Returned /\ shutdowns = 1
    /\ NeverBestmove(engine) /\ engine.flood
    /\ Len(output) = MaxFlood * Len(InfoLine)
    /\ retval = <<>>

\* C10: every call of Move eventually returns (the death of the calling
\* process by SIGPIPE is not counted here).
C10_MoveReturns == <>(pc \in {"returned", "killed"})


\* the commands of one call, in the order of the source
FullCmds ==
    << "uci", "setoption name Threads", "setoption name Hash",
       "setoption name Skill Level", "setoption name MultiPV", "isready",
       "position fen", "go movetime 1000", "quit" >>
TeardownOrder == <<"quit", "fclose", "kill", "waitpid">>
IsPrefix(a, b) == Len(a) <= Len(b) /\ a = SubSeq(b, 1, Len(a))
Has(seq, x) == \E i \in 1..Len(seq) : seq[i] = x

\* C11: the commands that have reached the engine are always an initial
\* part of uci, the four setoption commands, isready, position, go, quit
\* (so each is there at most once, in this order, and nothing follows
\* quit); position is there only once Ready-Wait has ended (readyok seen or
\* timeout), quit only once Result-Wait has ended.
C11_CommandOrder ==
    /\ IsPrefix(sent, FullCmds)
    /\ Has(sent, "position fen") =>
          /\ pc \notin {"send_uci", "send_config", "ready_wait", "send_position"}
          /\ pc = "send_go" => (ready \/ TimedOut(elapsed, ReadyTimeoutSec))
    /\ Has(sent, "quit") =>
          /\ pc \notin {"send_go", "result_wait", "send_quit"}
          /\ found_bestmove \/ TimedOut(elapsed, ResultTimeoutSec)

\* C11 witness: a call has returned with all nine commands delivered, after
\* a Ready-Wait that timed out.
C11_Witness == Returned /\ sent = FullCmds /\ ~ready

\* C12: once the locator has run, stockfish_path is the first candidate of
\* the list that access() accepts, for every set of accepted candidates;
\* when none is accepted, Move has returned the empty string with the
\* not-found message, no pipe was created and no child exists.
C12_LocatorFirstExecutable ==
    pc # "locate" =>
       /\ \A i \in 1..Len(stockfish_paths) :
             stockfish_path = stockfish_paths[i] =>
                /\ ResolveDir(stockfish_paths[i]) \in fs
                /\ \A j \in 1..(i - 1) : ResolveDir(stockfish_paths[j]) \notin fs
       /\ (\E i \in 1..Len(stockfish_paths) : ResolveDir(stockfish_paths[i]) \in fs)
             => stockfish_path # ""
       /\ (\A i \in 1..Len(stockfish_paths) : ResolveDir(stockfish_paths[i]) \notin fs)
             => /\ stockfish_path = ""
                /\ Returned /\ retval = <<>>
                /\ diag = "Could not find stockfish executable in any of the expected paths."
                /\ fds = {} /\ child = "none"

\* C12 witness: the bare name was chosen although the last candidate is
\* executable too, and the engine has been spawned.
C12_Witness ==
    /\ stockfish_path = "stockfish"
    /\ "/opt/homebrew/bin" \in fs
    /\ child = "running"

\* C13: a pipe or fork failure makes Move return the empty string with the
\* spawn message; after an exec failure the child has exited without taking
\* any further step, the calling process goes on living and Move returns
\* the empty string.
C13_SpawnFailureReported ==
    /\ (Returned /\ ~Spawned /\ stockfish_path # "") =>
          /\ retval = <<>>
          /\ diag \in {"Failed to create pipes", "Failed to fork process"}
    /\ execFailed => child \in {"zombie", "reaped"}
    /\ execFailed => pc # "killed"
    /\ (execFailed /\ Returned) => retval = <<>>

\* C14: a command write that fails because the engine has exited does not
\* end the calling process.
C14_BrokenWriteRecoverable == ~(pc = "killed" /\ ~execFailed)

\* C15: when an executable stockfish exists only in a directory of the
\* search path, the locator selects the bare name.
C15_BareNameViaSearchPath ==
    (pc # "locate" /\ fs = {"pathdir"}) => stockfish_path = "stockfish"

\* C16: when Result-Wait ended with found_bestmove still false, Move
\* returns the empty string.
C16_TimeoutReturnsEmpty ==
    (Returned /\ shutdowns = 1 /\ ~found_bestmove) => retval = <<>>

\* C17: Ready-Wait starts no iteration later than 5 s plus one iteration
\* after its start, Result-Wait none later than 7 s plus one iteration.
C17_TimeoutBounds ==
    /\ pc = "ready_wait" => elapsed <= ReadyTimeoutSec * 1000 + 2 * Quantum
    /\ pc = "result_wait" => elapsed <= ResultTimeoutSec * 1000 + 2 * Quantum

\* C18: the steps of the clean-up are always an initial part of quit,
\* fclose, kill, waitpid, and all four have been done, in this order, when
\* run_stockfish has returned: the signal is sent in every clean-up and the
\* reap never comes before it.
C18_ShutdownOrder ==
    /\ IsPrefix(teardown, TeardownOrder)
    /\ (pc \in {"parse", "returned", "escaped"} /\ Spawned) =>
          teardown = TeardownOrder

\* C18 witness: a clean-up has sent the signal and reaped a child that had
\* exited long before (its exec had failed).
C18_Witness == Returned /\ execFailed /\ teardown = TeardownOrder

\* C19: the text handed to the parser is the concatenation, in order, of
\* what the reads of Result-Wait returned; when found_bestmove is set, the
\* last of them holds bestmove and none before it does.
C19_CapturedText ==
    (pc \in {"parse", "returned", "escaped"} /\ shutdowns = 1) =>
       /\ output = Flatten(chunks)
       /\ found_bestmove =>
             /\ chunks # <<>>
             /\ StrStr(chunks[Len(chunks)], Bestmove)
             /\ \A i \in 1..(Len(chunks) - 1) : ~StrStr(chunks[i], Bestmove)

\* C19 witness: readyok was read during Ready-Wait, Result-Wait read two
\* pieces, and the text handed to the parser holds no readyok.
C19_Witness ==
    /\ Returned /\ shutdowns = 1
    /\ ready /\ found_bestmove
    /\ Len(chunks) = 2
    /\ output = Flatten(chunks)
    /\ ~StrStr(output, Readyok)

\* C20: when run_stockfish has failed before a child exists, no pipe
\* descriptor of the call is open in the caller.
C20_NoDescriptorLeak ==
    (pc \in {"returned", "escaped"} /\ ~Spawned) => fds = {}

====
